---- MODULE Spec2Model ----
(***************************************************************************)
(* Model of alphagenome_sv_expression_scan.py: the indel aligner, the      *)
(* sliding-window score computer, the region caller and the driver loop    *)
(* of main() that turns regions into result rows.                          *)
(*                                                                         *)
(* Numbers.  Signal values are non-negative reals in the program; here     *)
(* they are naturals, with NaN for numpy's nan.  A window score is the     *)
(* exact rational <<num, den>> with den > 0, and <<0, 0>> is nan.  The      *)
(* threshold is the rational <<num, den>> and epsilon is 1 / EpsDen.       *)
(* Arrays are 0-based in the program and 1-based sequences here: element   *)
(* i of the program is s[i + 1].                                           *)
(***************************************************************************)
EXTENDS Integers, Sequences, FiniteSets, TLC

VARIABLES
    args,           \* parsed command line: threshold, min_length, merge_distance, window_size, scan_span, epsilon, plot_non_sig
    pc,             \* position of the running procedure
    alt_vals,       \* vout.alternate.rna_seq.values, one sequence of samples per track
    ref_vals,       \* vout.reference.rna_seq.values, one sequence of samples per track
    ref_pred,       \* history: the reference values as predicted, before the in-place alignment
    variant,        \* the variant of the current unit: position, center_idx, length_alter
    start_idx,      \* scan bounds as main() holds them (not clipped)
    end_idx,
    win_scores,     \* result of compute_window_scores, one sequence of scores per track
    scores,         \* the score array handed to call_regions
    regions,        \* result of call_regions
    ti,             \* track index of the driver loop
    unit,           \* number of (organ, variant) units started
    results_rows,   \* accumulated result rows
    raised          \* TRUE once an exception has propagated

vars == <<args, pc, alt_vals, ref_vals, ref_pred, variant, start_idx, end_idx, win_scores,
          scores, regions, ti, unit, results_rows, raised>>

----------------------------------------------------------------------------
(* Bounds of the model *)

MaxLen == 6          \* longest score array handed to call_regions
MaxMerge == 3        \* largest merge_distance
MaxMinLen == 3       \* largest min_length
MaxBases == 4        \* largest number of samples of a track
MaxWindow == 3       \* largest window_size
MaxIndel == 9        \* largest |length_alter| handed to the aligner
MaxShift == 2        \* largest |length_alter| behind a reference handed to the score computer
Overhang == 2        \* how far a scan bound may lie outside the samples
EpsDen == 1          \* epsilon is 1 / EpsDen
NBases == 5          \* samples per track of the interval in the driver

----------------------------------------------------------------------------
(* Arithmetic helpers *)

Max(a, b) == IF a >= b THEN a ELSE b
Min(a, b) == IF a <= b THEN a ELSE b
Abs(a) == IF a < 0 THEN -a ELSE a

NaN == -1                       \* np.nan as a signal value or a cumulative sum
NaNScore == <<0, 0>>            \* np.nan as a window score
IsNaNScore(s) == s[2] = 0

\* np.abs(s) > threshold, false for nan
AboveThreshold(s, threshold) ==
    /\ ~IsNaNScore(s)
    /\ Abs(s[1]) * threshold[2] > threshold[1] * s[2]

----------------------------------------------------------------------------
(* call_regions *)

\* idx = np.where(np.abs(scores) > threshold)[0], ascending 0-based indices
RECURSIVE WhereAbove(_, _, _)
WhereAbove(sc, threshold, k) ==
    IF k > Len(sc) THEN <<>>
    ELSE (IF AboveThreshold(sc[k], threshold) THEN <<k - 1>> ELSE <<>>)
         \o WhereAbove(sc, threshold, k + 1)

\* the loop "for i in idx[1:]" that compresses consecutive indices, with the tail append
RECURSIVE CompressRuns(_, _, _, _)
CompressRuns(idx, k, start, prev) ==
    IF k > Len(idx) THEN << <<start, prev>> >>
    ELSE IF idx[k] = prev + 1 THEN CompressRuns(idx, k + 1, start, idx[k])
    ELSE << <<start, prev>> >> \o CompressRuns(idx, k + 1, idx[k], idx[k])

\* "if cur_e - cur_s + 1 >= min_length: merged.append((cur_s, cur_e))"
CloseRegion(cur_s, cur_e, min_length) ==
    IF cur_e - cur_s + 1 >= min_length THEN << <<cur_s, cur_e>> >> ELSE <<>>

\* the loop "for s, e in regions[1:]" that merges runs, with the final close
RECURSIVE MergeRuns(_, _, _, _, _, _)
MergeRuns(runs, k, cur_s, cur_e, min_length, merge_distance) ==
    IF k > Len(runs) THEN CloseRegion(cur_s, cur_e, min_length)
    ELSE LET s == runs[k][1]
             e == runs[k][2]
         IN  IF s - cur_e <= merge_distance
             THEN MergeRuns(runs, k + 1, cur_s, e, min_length, merge_distance)
             ELSE CloseRegion(cur_s, cur_e, min_length)
                  \o MergeRuns(runs, k + 1, s, e, min_length, merge_distance)

\* mutant: the length filter is applied to the runs, before merging
RECURSIVE FilterRuns(_, _, _)
FilterRuns(runs, k, min_length) ==
    IF k > Len(runs) THEN <<>>
    ELSE CloseRegion(runs[k][1], runs[k][2], min_length) \o FilterRuns(runs, k + 1, min_length)

call_regions_FilterFirst(sc, threshold, min_length, merge_distance) ==
    LET idx == WhereAbove(sc, threshold, 1)
    IN  IF Len(idx) = 0 THEN <<>>
        ELSE LET runs == FilterRuns(CompressRuns(idx, 2, idx[1], idx[1]), 1, min_length)
             IN  IF Len(runs) = 0 THEN <<>>
                 ELSE MergeRuns(runs, 2, runs[1][1], runs[1][2], 0, merge_distance)

call_regions(sc, threshold, min_length, merge_distance) ==
    LET idx == WhereAbove(sc, threshold, 1)
    IN  IF Len(idx) = 0 THEN <<>>
        ELSE LET runs == CompressRuns(idx, 2, idx[1], idx[1])
             IN  MergeRuns(runs, 2, runs[1][1], runs[1][2], min_length, merge_distance)

----------------------------------------------------------------------------
(* numpy basic slicing along axis 0 *)

\* a slice bound as Python normalises it for an axis of length n
SliceBound(i, n) == IF i < 0 THEN Max(i + n, 0) ELSE Min(i, n)

\* number of elements selected by [lo:hi] on an axis of length n
SliceLen(lo, hi, n) == Max(0, SliceBound(hi, n) - SliceBound(lo, n))

\* the elements col[lo:hi]
Slice(col, lo, hi) ==
    LET n == Len(col)
        a == SliceBound(lo, n)
    IN  [j \in 1..SliceLen(lo, hi, n) |-> col[a + j]]

\* col[lo:hi] = src, for src of the same length or of length 1 (broadcast)
AssignSlice(col, lo, hi, src) ==
    LET n == Len(col)
        a == SliceBound(lo, n)
        m == SliceLen(lo, hi, n)
    IN  [i \in 1..n |->
            IF a < i /\ i <= a + m
            THEN (IF Len(src) = 1 THEN src[1] ELSE src[i - a])
            ELSE col[i]]

\* col[lo:hi] = np.nan
FillNaN(col, lo, hi) ==
    LET n == Len(col)
        a == SliceBound(lo, n)
        m == SliceLen(lo, hi, n)
    IN  [i \in 1..n |-> IF a < i /\ i <= a + m THEN NaN ELSE col[i]]

\* numpy raises ValueError when a source of srcLen rows cannot be broadcast to dstLen rows
BroadcastFails(srcLen, dstLen) == srcLen # dstLen /\ srcLen # 1

----------------------------------------------------------------------------
(* align_reference_for_indel: off = variant.position - interval.start,     *)
(* n = interval.end - interval.start, the number of samples of a track     *)

\* the deletion branch fails in its slice assignment
DeletionRaises(off, n, length_alter) ==
    BroadcastFails(SliceLen(off + length_alter, n, n), SliceLen(off, n - length_alter, n))

\* the insertion branch fails in its slice assignment
InsertionRaises(off, n, length_alter) ==
    BroadcastFails(SliceLen(off, n + length_alter, n), SliceLen(off - length_alter, n, n))

AlignRaises(off, n, length_alter) ==
    IF length_alter > 0 THEN DeletionRaises(off, n, length_alter)
    ELSE IF length_alter < 0 THEN InsertionRaises(off, n, length_alter)
    ELSE FALSE

\* mutant: the insertion branch marks the last k samples instead of the inserted span
AlignColumn_NaNAtEnd(col, off, length_alter) ==
    LET n == Len(col)
    IN  IF length_alter > 0
        THEN FillNaN(AssignSlice(col, off, n - length_alter, Slice(col, off + length_alter, n)),
                     n - length_alter, n)
        ELSE IF length_alter < 0
        THEN FillNaN(AssignSlice(col, off - length_alter, n, Slice(col, off, n + length_alter)),
                     n + length_alter, n)
        ELSE col

\* one track of the reference after the in-place shift (when nothing is raised)
AlignColumn(col, off, length_alter) ==
    LET n == Len(col)
    IN  IF length_alter > 0
        THEN FillNaN(AssignSlice(col, off, n - length_alter, Slice(col, off + length_alter, n)),
                     n - length_alter, n)
        ELSE IF length_alter < 0
        THEN FillNaN(AssignSlice(col, off - length_alter, n, Slice(col, off, n + length_alter)),
                     off, off - length_alter)
        ELSE col

\* the whole call on the matrix: the values afterwards and whether it raised
align_reference_for_indel(ref, off, length_alter) ==
    IF AlignRaises(off, Len(ref[1]), length_alter)
    THEN [values |-> ref, raised |-> TRUE]
    ELSE [values |-> [t \in 1..Len(ref) |-> AlignColumn(ref[t], off, length_alter)],
          raised |-> FALSE]

----------------------------------------------------------------------------
(* compute_window_scores *)

\* floating-point addition and subtraction with nan
AddNaN(x, y) == IF x = NaN \/ y = NaN THEN NaN ELSE x + y
SubNaN(x, y) == IF x = NaN \/ y = NaN THEN NaN ELSE x - y

\* np.cumsum(np.vstack([zeros, vals])): entry j (0-based) is the sum of the first j samples
RECURSIVE CumSum(_, _)
CumSum(col, j) == IF j = 0 THEN 0 ELSE AddNaN(CumSum(col, j - 1), col[j])

CumSumArray(col) == [k \in 1..(Len(col) + 1) |-> CumSum(col, k - 1)]

\* elementwise difference of two slices of a cumulative-sum array
SliceDiff(hi, lo) == [k \in 1..Min(Len(hi), Len(lo)) |-> SubNaN(hi[k], lo[k])]

\* (a / w) / (r / w + 1 / eps_den) - 1 as an exact rational
WindowScore(a, r, window_size, eps_den) ==
    IF a = NaN \/ r = NaN THEN NaNScore
    ELSE <<a * eps_den - r * eps_den - window_size, r * eps_den + window_size>>

\* mutant: the last window is dropped
NWindows_OffByOne(n_bases, s_idx, e_idx, window_size) ==
    LET s == IF s_idx < 0 THEN 0 ELSE s_idx
        e == IF e_idx > n_bases THEN n_bases ELSE e_idx
    IN  e - s - window_size

\* the number of windows after the bounds are clipped
NWindows(n_bases, s_idx, e_idx, window_size) ==
    LET s == IF s_idx < 0 THEN 0 ELSE s_idx
        e == IF e_idx > n_bases THEN n_bases ELSE e_idx
    IN  e - s - window_size + 1

\* the scores of one track
WindowScoresColumn(alt, ref, s_idx, e_idx, window_size, eps_den) ==
    LET n_bases == Len(alt)
        s == IF s_idx < 0 THEN 0 ELSE s_idx
        n_windows == NWindows(n_bases, s_idx, e_idx, window_size)
        alt_cs == CumSumArray(alt)
        ref_cs == CumSumArray(ref)
        a == SliceDiff(Slice(alt_cs, s + window_size, s + window_size + n_windows),
                       Slice(alt_cs, s, s + n_windows))
        r == SliceDiff(Slice(ref_cs, s + window_size, s + window_size + n_windows),
                       Slice(ref_cs, s, s + n_windows))
    IN  IF n_windows <= 0 THEN <<>>
        ELSE [k \in 1..Min(Len(a), Len(r)) |-> WindowScore(a[k], r[k], window_size, eps_den)]

\* the (n_windows, n_tracks) result, one sequence of scores per track
compute_window_scores(alt, ref, s_idx, e_idx, window_size, eps_den) ==
    [t \in 1..Len(alt) |-> WindowScoresColumn(alt[t], ref[t], s_idx, e_idx, window_size, eps_den)]

----------------------------------------------------------------------------
(* Values shared by the specifications *)

\* --threshold 0.5
Threshold == <<1, 2>>

BaseArgs == [threshold |-> Threshold, min_length |-> 1, merge_distance |-> 0,
             window_size |-> 1, scan_span |-> 1, eps_den |-> EpsDen, plot_non_sig |-> FALSE]

NoVariant == [position |-> 0, center_idx |-> 0, length_alter |-> 0]

\* all sequences over S of length lo..hi
SeqsOf(S, lo, hi) == UNION {[1..n -> S] : n \in lo..hi}

----------------------------------------------------------------------------
(* Specification of call_regions on its own: Init draws the score array    *)
(* and the parameters, CallRegions applies the function.                   *)

\* 0, 0.6, -0.7 and nan
ScoreVals == {<<0, 1>>, <<3, 5>>, <<-7, 10>>, NaNScore}

\* the score array [0, 0.6, 0.7, 0, 0, 0.55, 0]
WorkedExample == << <<0, 1>>, <<3, 5>>, <<7, 10>>, <<0, 1>>, <<0, 1>>, <<11, 20>>, <<0, 1>> >>

ScoreArrays == SeqsOf(ScoreVals, 0, MaxLen) \cup {WorkedExample}

InitRegions ==
    /\ pc = "call_regions"
    /\ scores \in ScoreArrays
    /\ args \in {[BaseArgs EXCEPT !.min_length = ml, !.merge_distance = md] :
                    ml \in 0..MaxMinLen, md \in 0..MaxMerge}
    /\ regions = <<>>
    /\ alt_vals = <<>> /\ ref_vals = <<>> /\ ref_pred = <<>>
    /\ variant = NoVariant
    /\ start_idx = 0 /\ end_idx = 0
    /\ win_scores = <<>>
    /\ ti = 0 /\ unit = 0
    /\ results_rows = <<>>
    /\ raised = FALSE

CallRegions ==
    /\ pc = "call_regions"
    /\ regions' = call_regions(scores, args.threshold, args.min_length, args.merge_distance)
    /\ pc' = "regions_returned"
    /\ UNCHANGED <<args, alt_vals, ref_vals, ref_pred, variant, start_idx, end_idx,
                   win_scores, scores, ti, unit, results_rows, raised>>

NextRegions == CallRegions

SpecRegions == InitRegions /\ [][NextRegions]_vars

----------------------------------------------------------------------------
(* Specification of align_reference_for_indel on its own                   *)

SignalVals == {1, 2}

InitAlign ==
    /\ pc = "align"
    /\ \E col \in SeqsOf(SignalVals, 1, MaxBases) :
          /\ ref_vals = <<col>>
          /\ ref_pred = <<col>>
          /\ alt_vals = <<col>>
          /\ \E off \in 0..(Len(col) - 1), la \in (-MaxIndel..MaxIndel) \ {0} :
                variant = [position |-> off + 1, center_idx |-> off, length_alter |-> la]
    /\ args = BaseArgs
    /\ scores = <<>> /\ regions = <<>>
    /\ start_idx = 0 /\ end_idx = 0
    /\ win_scores = <<>>
    /\ ti = 0 /\ unit = 0
    /\ results_rows = <<>>
    /\ raised = FALSE

AlignReference ==
    /\ pc = "align"
    /\ LET res == align_reference_for_indel(ref_vals, variant.center_idx, variant.length_alter)
       IN  /\ ref_vals' = res.values
           /\ raised' = res.raised
    /\ pc' = "align_returned"
    /\ UNCHANGED <<args, alt_vals, ref_pred, variant, start_idx, end_idx, win_scores,
                   scores, regions, ti, unit, results_rows>>

NextAlign == AlignReference

SpecAlign == InitAlign /\ [][NextAlign]_vars

----------------------------------------------------------------------------
(* Specification of compute_window_scores on its own.  The reference it    *)
(* is handed is a predicted track after alignment for some indel.          *)

AlignedColumns(n) ==
    {AlignColumn(col, off, la) :
        col \in [1..n -> SignalVals], off \in 0..(n - 1), la \in -MaxShift..MaxShift}

InitWindows ==
    /\ pc = "window_scores"
    /\ \E n \in 1..MaxBases :
          /\ \E col \in [1..n -> SignalVals] : alt_vals = <<col>>
          /\ \E col \in AlignedColumns(n) : ref_vals = <<col>>
          /\ start_idx \in -Overhang..(n + Overhang)
          /\ end_idx \in -Overhang..(n + Overhang)
    /\ ref_pred = <<>>
    /\ args \in {[BaseArgs EXCEPT !.window_size = w] : w \in 1..MaxWindow}
    /\ variant = NoVariant
    /\ scores = <<>> /\ regions = <<>>
    /\ win_scores = <<>>
    /\ ti = 0 /\ unit = 0
    /\ results_rows = <<>>
    /\ raised = FALSE

ComputeWindowScores ==
    /\ pc = "window_scores"
    /\ win_scores' = compute_window_scores(alt_vals, ref_vals, start_idx, end_idx,
                                           args.window_size, args.eps_den)
    /\ pc' = "scores_returned"
    /\ UNCHANGED <<args, alt_vals, ref_vals, ref_pred, variant, start_idx, end_idx,
                   scores, regions, ti, unit, results_rows, raised>>

NextWindows == ComputeWindowScores

SpecWindows == InitWindows /\ [][NextWindows]_vars

----------------------------------------------------------------------------
(* Region statistics of main(): nan-aware reductions on rational scores *)

LessRat(x, y) == x[1] * y[2] < y[1] * x[2]
AddRat(x, y) == <<x[1] * y[2] + y[1] * x[2], x[2] * y[2]>>

\* the scores of seg that are not nan
RECURSIVE DropNaN(_)
DropNaN(seg) ==
    IF Len(seg) = 0 THEN <<>>
    ELSE (IF IsNaNScore(Head(seg)) THEN <<>> ELSE <<Head(seg)>>) \o DropNaN(Tail(seg))

RECURSIVE SumRat(_)
SumRat(seg) == IF Len(seg) = 0 THEN <<0, 1>> ELSE AddRat(Head(seg), SumRat(Tail(seg)))

\* float(np.nanmean(seg)): nan when every score is nan
NanMean(seg) ==
    LET v == DropNaN(seg)
    IN  IF Len(v) = 0 THEN NaNScore
        ELSE LET t == SumRat(v) IN <<t[1], t[2] * Len(v)>>

\* float(np.nanmax(seg))
NanMax(seg) ==
    LET v == DropNaN(seg)
    IN  IF Len(v) = 0 THEN NaNScore
        ELSE v[CHOOSE k \in 1..Len(v) : \A j \in 1..Len(v) : ~LessRat(v[k], v[j])]

\* float(np.nanmin(seg))
NanMin(seg) ==
    LET v == DropNaN(seg)
    IN  IF Len(v) = 0 THEN NaNScore
        ELSE v[CHOOSE k \in 1..Len(v) : \A j \in 1..Len(v) : ~LessRat(v[j], v[k])]

\* x > 0 and x < 0 on floats: both false for nan
IsPositive(x) == ~IsNaNScore(x) /\ x[1] > 0
IsNegative(x) == ~IsNaNScore(x) /\ x[1] < 0

\* mutant: "up" is decided by the mean alone
Direction_MeanOnly(mean_s, max_s, min_s) ==
    IF IsPositive(mean_s) THEN "up"
    ELSE IF IsNegative(mean_s) /\ IsNegative(max_s) THEN "down"
    ELSE "mixed"

\* the direction label of a region
Direction(mean_s, max_s, min_s) ==
    IF IsPositive(mean_s) /\ IsPositive(min_s) THEN "up"
    ELSE IF IsNegative(mean_s) /\ IsNegative(max_s) THEN "down"
    ELSE "mixed"

----------------------------------------------------------------------------
(* Result rows of main() *)

NoPlot == <<>>                  \* plot_file None
NaNBp == "nan"                  \* np.nan in a base-pair column

\* the row of region ri (0-based) of track t
RegionRow(v, ontology, t, sc, regs, ri, s_idx, window_size) ==
    LET rs == regs[ri + 1][1]
        re == regs[ri + 1][2]
        rel_start == (s_idx + rs) - v.center_idx
        rel_end == (s_idx + re + window_size - 1) - v.center_idx
        seg_scores == SubSeq(sc, rs + 1, re + 1)
        mean_s == NanMean(seg_scores)
        max_s == NanMax(seg_scores)
        min_s == NanMin(seg_scores)
    IN  [pos |-> v.position, ontology |-> ontology, track |-> t,
         is_significant |-> TRUE, n_regions |-> Len(regs), region_index |-> ri,
         rel_start_bp |-> rel_start, rel_end_bp |-> rel_end,
         abs_start_bp |-> v.position + rel_start, abs_end_bp |-> v.position + rel_end,
         mean_score |-> mean_s, max_score |-> max_s, min_score |-> min_s,
         direction |-> Direction(mean_s, max_s, min_s),
         plot_file |-> NoPlot]

\* the single row of a track without regions
NonSigRow(v, ontology, t, sc) ==
    [pos |-> v.position, ontology |-> ontology, track |-> t,
     is_significant |-> FALSE, n_regions |-> 0, region_index |-> -1,
     rel_start_bp |-> NaNBp, rel_end_bp |-> NaNBp,
     abs_start_bp |-> NaNBp, abs_end_bp |-> NaNBp,
     mean_score |-> NanMean(sc), max_score |-> NanMax(sc), min_score |-> NanMin(sc),
     direction |-> "none",
     plot_file |-> NoPlot]

\* mutant: a track without regions is left out of the table
TrackRows_OmitNonSig(v, ontology, t, sc, regs, s_idx, window_size) ==
    IF Len(regs) > 0
    THEN [k \in 1..Len(regs) |-> RegionRow(v, ontology, t, sc, regs, k - 1, s_idx, window_size)]
    ELSE <<>>

\* the rows one iteration of the track loop appends
TrackRows(v, ontology, t, sc, regs, s_idx, window_size) ==
    IF Len(regs) > 0
    THEN [k \in 1..Len(regs) |-> RegionRow(v, ontology, t, sc, regs, k - 1, s_idx, window_size)]
    ELSE <<NonSigRow(v, ontology, t, sc)>>

\* results_rows[-n:]: the positions of the last n rows
LastRows(rows, n) == {k \in 1..Len(rows) : k > Len(rows) - n}

----------------------------------------------------------------------------
(* The driver: main() looping over organs, variants and tracks.  The       *)
(* variants table here holds one variant, the organ list the first two     *)
(* organs of the default list.  predict_variant is outside the program:    *)
(* what it returns is drawn at each unit.                                   *)

Organs == <<"UBERON:0000992", "UBERON:0002371">>

\* variants_df: tables of one row
\* center_idx = variant.position - interval.start of the interval resized around the variant
Variants ==
    {[position |-> 100, center_idx |-> NBases \div 2, length_alter |-> la] :
        la \in {-1, 0, 1, NBases + 1}}

NUnits == Len(Organs)

\* the organ and the row number of unit u (1-based), organs outermost
OntologyOf(u) == Organs[u]
NumberRank(u) == 1

\* predicted alternate tracks: a flat one (score 0), a raised one, one that
\* alternates raised / flat / lowered, and a lowered one with one flat sample
FlatTrack == [i \in 1..NBases |-> 2]
RaisedTrack == [i \in 1..NBases |-> 4]
WavyTrack == [i \in 1..NBases |-> IF i % 4 = 1 THEN 4 ELSE IF i % 4 = 3 THEN 0 ELSE 2]
LoweredTrack == [i \in 1..NBases |-> IF i = 3 THEN 2 ELSE 0]

AltTracks == {FlatTrack, RaisedTrack, WavyTrack, LoweredTrack}
SecondTracks == {FlatTrack, WavyTrack}

AltMatrices ==
    {<<>>} \cup {<<a>> : a \in AltTracks}
           \cup {<<a, b>> : a \in AltTracks, b \in SecondTracks}

\* the predicted reference: every sample 1
RefMatrix(n_tracks) == [t \in 1..n_tracks |-> [i \in 1..NBases |-> 1]]

DriverArgs ==
    {[BaseArgs EXCEPT !.merge_distance = md, !.window_size = w,
                      !.scan_span = sp, !.plot_non_sig = pn] :
        md \in {0, 2}, w \in {1, 3}, sp \in {1, 3, 4}, pn \in BOOLEAN}

Init ==
    /\ args \in DriverArgs
    /\ pc = "next_unit"
    /\ unit = 0
    /\ variant \in Variants
    /\ alt_vals = <<>> /\ ref_vals = <<>> /\ ref_pred = <<>>
    /\ start_idx = 0 /\ end_idx = 0
    /\ win_scores = <<>>
    /\ scores = <<>> /\ regions = <<>>
    /\ ti = 0
    /\ results_rows = <<>>
    /\ raised = FALSE

\* lines 266-288: next variant of the table, the prediction, and the skip on no tracks
PredictVariant ==
    /\ pc = "next_unit"
    /\ unit < NUnits
    /\ unit' = unit + 1
    /\ \E alt \in AltMatrices :
          /\ alt_vals' = alt
          /\ ref_vals' = RefMatrix(Len(alt))
          /\ ref_pred' = RefMatrix(Len(alt))
          /\ pc' = IF Len(alt) = 0 THEN "next_unit" ELSE "align"
    /\ UNCHANGED <<args, variant, start_idx, end_idx, win_scores, scores, regions, ti,
                   results_rows, raised>>

\* lines 290-294: indel alignment; an exception ends the program
AlignUnit ==
    /\ pc = "align"
    /\ LET res == IF variant.length_alter # 0
                  THEN align_reference_for_indel(ref_vals, variant.center_idx, variant.length_alter)
                  ELSE [values |-> ref_vals, raised |-> FALSE]
       IN  /\ ref_vals' = res.values
           /\ raised' = res.raised
           /\ pc' = IF res.raised THEN "crashed" ELSE "score"
    /\ UNCHANGED <<args, alt_vals, ref_pred, variant, start_idx, end_idx, win_scores,
                   scores, regions, ti, unit, results_rows>>

\* lines 296-305: scan bounds, window scores, and the skip on an empty result
ScoreUnit ==
    /\ pc = "score"
    /\ LET s == variant.center_idx - args.scan_span
           e == variant.center_idx + args.scan_span
           ws == compute_window_scores(alt_vals, ref_vals, s, e, args.window_size, args.eps_den)
       IN  /\ start_idx' = s
           /\ end_idx' = e
           /\ win_scores' = ws
           /\ pc' = IF Len(ws[1]) * Len(ws) = 0 THEN "next_unit" ELSE "track"
    /\ ti' = 0
    /\ UNCHANGED <<args, alt_vals, ref_vals, ref_pred, variant, scores, regions, unit,
                   results_rows, raised>>

\* lines 316-383: one iteration of the track loop
ScanTrack ==
    /\ pc = "track"
    /\ ti < Len(alt_vals)
    /\ LET sc == win_scores[ti + 1]
           regs == call_regions(sc, args.threshold, args.min_length, args.merge_distance)
       IN  /\ scores' = sc
           /\ regions' = regs
           /\ results_rows' = results_rows \o
                 TrackRows(variant, OntologyOf(unit), ti, sc, regs, start_idx, args.window_size)
    /\ ti' = ti + 1
    /\ UNCHANGED <<args, pc, alt_vals, ref_vals, ref_pred, variant, start_idx, end_idx,
                   win_scores, unit, raised>>

\* lines 391-399: the plot decision and the back-fill of plot_file
PlotUnit ==
    /\ pc = "track"
    /\ ti = Len(alt_vals)
    /\ LET n_tracks == Len(alt_vals)
           recent == LastRows(results_rows, n_tracks)
           mine(r) == r.pos = variant.position /\ r.ontology = OntologyOf(unit)
           sig_any == \E k \in recent : results_rows[k].is_significant /\ mine(results_rows[k])
           plot_path == <<OntologyOf(unit), NumberRank(unit), variant.position>>
       IN  results_rows' =
               IF sig_any \/ args.plot_non_sig
               THEN [k \in 1..Len(results_rows) |->
                        IF k \in recent /\ mine(results_rows[k])
                        THEN [results_rows[k] EXCEPT !.plot_file = plot_path]
                        ELSE results_rows[k]]
               ELSE results_rows
    /\ pc' = "next_unit"
    /\ UNCHANGED <<args, alt_vals, ref_vals, ref_pred, variant, start_idx, end_idx,
                   win_scores, scores, regions, ti, unit, raised>>

\* line 401 on: the loops are over
Finish ==
    /\ pc = "next_unit"
    /\ unit = NUnits
    /\ pc' = "done"
    /\ UNCHANGED <<args, alt_vals, ref_vals, ref_pred, variant, start_idx, end_idx,
                   win_scores, scores, regions, ti, unit, results_rows, raised>>

Next == PredictVariant \/ AlignUnit \/ ScoreUnit \/ ScanTrack \/ PlotUnit \/ Finish

Spec == Init /\ [][Next]_vars

----------------------------------------------------------------------------
(* Properties of call_regions (SpecRegions) *)

\* the 0-based indices whose absolute score exceeds the threshold
Selected == {i \in 0..(Len(scores) - 1) : AboveThreshold(scores[i + 1], args.threshold)}

\* two selected indices with no selected index between them
AdjacentSelected(a, b) ==
    /\ a \in Selected /\ b \in Selected /\ a < b
    /\ \A c \in Selected : ~(a < c /\ c < b)

InRegion(i, r) == r[1] <= i /\ i <= r[2]

RegionSet == {regions[k] : k \in 1..Len(regions)}

\* C1: two adjacent runs are merged into one region whenever the number of
\* unselected indices between them is <= merge_distance (the case gap =
\* merge_distance included), and the worked example [0, 0.6, 0.7, 0, 0, 0.55, 0]
\* with threshold 0.5, merge_distance 2, min_length 1 returns exactly [(1, 5)].
C1_MergeUpToDistance ==
    pc = "regions_returned" =>
        /\ \A a \in Selected, b \in Selected :
              (AdjacentSelected(a, b) /\ b - a - 1 <= args.merge_distance)
                  => \A r \in RegionSet : InRegion(a, r) <=> InRegion(b, r)
        /\ (scores = WorkedExample /\ args.merge_distance = 2 /\ args.min_length = 1)
              => regions = << <<1, 5>> >>

\* C2: the returned list is ascending and non-overlapping, and consecutive
\* regions are separated by more than merge_distance unselected indices.
C2_SeparatedByMoreThanDistance ==
    pc = "regions_returned" =>
        \A k \in 1..(Len(regions) - 1) :
            /\ regions[k][2] < regions[k + 1][1]
            /\ regions[k + 1][1] - regions[k][2] - 1 > args.merge_distance

\* two adjacent selected indices end up in the same merged region: they are
\* consecutive, or the merge sweep joins their runs
Joined(a, b) == b - a = 1 \/ b - a <= args.merge_distance

\* <<s, e>> is a region as it stands after merging and before the length filter
IsMergedRegion(s, e) ==
    /\ s \in Selected /\ e \in Selected /\ s <= e
    /\ \A a \in Selected, b \in Selected :
          (AdjacentSelected(a, b) /\ s <= a /\ b <= e) => Joined(a, b)
    /\ \A a \in Selected : AdjacentSelected(a, s) => ~Joined(a, s)
    /\ \A b \in Selected : AdjacentSelected(e, b) => ~Joined(e, b)

MergedRegions ==
    {<<s, e>> : s \in Selected, e \in Selected} \cap
    {r \in (0..MaxLen) \X (0..MaxLen) : IsMergedRegion(r[1], r[2])}

\* C3: the length filter acts on the merged regions only: every returned
\* region has length >= min_length, every merged region of length >=
\* min_length is returned, so a short run inside a long enough merged region
\* is kept.
C3_FilterAfterMerge ==
    pc = "regions_returned" =>
        /\ \A r \in RegionSet : r[2] - r[1] + 1 >= args.min_length
        /\ RegionSet = {r \in MergedRegions : r[2] - r[1] + 1 >= args.min_length}
        /\ Cardinality(RegionSet) = Len(regions)

\* a returned region that starts with a run of one index, shorter than
\* min_length, and reaches min_length only through merging
C3_Witness ==
    /\ pc = "regions_returned"
    /\ args.min_length >= 2
    /\ \E r \in RegionSet : (r[1] + 1) \notin Selected /\ r[2] > r[1]

----------------------------------------------------------------------------
(* Properties of align_reference_for_indel (SpecAlign) *)

\* C5 precondition: the indel fits between the mutation offset and the interval end
IndelFits ==
    /\ variant.length_alter # 0
    /\ 0 <= variant.center_idx
    /\ variant.center_idx + Abs(variant.length_alter) <= Len(ref_pred[1])

\* C5: for an indel that fits, samples before the mutation offset are
\* unchanged; a deletion of L moves in[i+L] to i for off <= i < n-L and marks
\* n-L..n-1 as nan; an insertion of k marks off..off+k-1 as nan and moves
\* in[i-k] to i for off+k <= i < n.
C5_AlignShifts ==
    (pc = "align_returned" /\ IndelFits) =>
        LET n == Len(ref_pred[1])
            off == variant.center_idx
            la == variant.length_alter
            in == ref_pred[1]
            out == ref_vals[1]
        IN  /\ ~raised
            /\ Len(out) = n
            /\ \A i \in 0..(n - 1) :
                  IF i < off THEN out[i + 1] = in[i + 1]
                  ELSE IF la > 0
                  THEN (IF i < n - la THEN out[i + 1] = in[i + 1 + la] ELSE out[i + 1] = NaN)
                  ELSE (IF i < off - la THEN out[i + 1] = NaN ELSE out[i + 1] = in[i + 1 + la])

\* an insertion that fits and leaves samples to shift behind the inserted span
C5_Witness ==
    /\ pc = "align_returned"
    /\ IndelFits
    /\ variant.length_alter < 0
    /\ variant.center_idx > 0
    /\ variant.center_idx - variant.length_alter < Len(ref_pred[1])
    /\ ref_vals[1][variant.center_idx + 1] = NaN

\* C6: for every mutation offset inside the interval and every nonzero
\* length_alter, however long, the aligner completes without raising.
C6_AlignNeverRaises == raised = FALSE

----------------------------------------------------------------------------
(* Properties of compute_window_scores (SpecWindows) *)

\* a scan bound clipped into [0, n]
Clip(x, n) == Min(Max(x, 0), n)

\* C4: the number of windows is max(0, (end' - start') - window_size + 1)
\* for the bounds clipped into [0, n_samples]; with no window the result is
\* empty and nothing is raised.
C4_WindowCount ==
    pc = "scores_returned" =>
        LET n == Len(alt_vals[1])
            count == Max(0, (Clip(end_idx, n) - Clip(start_idx, n)) - args.window_size + 1)
        IN  /\ ~raised
            /\ \A t \in 1..Len(win_scores) : Len(win_scores[t]) = count

\* both bounds were clipped and windows remain
C4_Witness ==
    /\ pc = "scores_returned"
    /\ start_idx < 0 /\ end_idx > Len(alt_vals[1])
    /\ Len(win_scores[1]) > 1

\* C9: a window score is nan only if one of the window_size samples of that
\* window, in the reference or the alternate signal, is nan.
C9_NaNOnlyFromOwnSamples ==
    pc = "scores_returned" =>
        LET s == Max(start_idx, 0)
        IN  \A k \in 1..Len(win_scores[1]) :
                IsNaNScore(win_scores[1][k]) =>
                    \E j \in (s + k)..(s + k + args.window_size - 1) :
                        ref_vals[1][j] = NaN \/ alt_vals[1][j] = NaN

----------------------------------------------------------------------------
(* Properties of the driver (Spec) *)

\* the regions of track t of the current unit
RegionsOfTrack(t) ==
    call_regions(win_scores[t + 1], args.threshold, args.min_length, args.merge_distance)

\* the positions in results_rows of the rows of track t of the current unit
RowsOfTrack(t) ==
    {k \in 1..Len(results_rows) :
        /\ results_rows[k].ontology = OntologyOf(unit)
        /\ results_rows[k].pos = variant.position
        /\ results_rows[k].track = t}

\* C7: for every scanned channel of a unit the table holds exactly
\* max(1, number of regions) rows: with no region one row with is_significant
\* false, n_regions 0, region_index -1, direction none and undefined bounds;
\* with r regions r consecutive rows with is_significant true, n_regions r and
\* region_index 0..r-1 in region order.
C7_RowsPerChannel ==
    pc = "track" =>
        \A t \in 0..(ti - 1) :
            LET regs == RegionsOfTrack(t)
                ks == RowsOfTrack(t)
            IN  /\ Cardinality(ks) = Max(1, Len(regs))
                /\ \A k \in ks :
                      LET row == results_rows[k]
                      IN  IF Len(regs) = 0
                          THEN /\ row.is_significant = FALSE
                               /\ row.n_regions = 0
                               /\ row.region_index = -1
                               /\ row.direction = "none"
                               /\ row.rel_start_bp = NaNBp /\ row.rel_end_bp = NaNBp
                               /\ row.abs_start_bp = NaNBp /\ row.abs_end_bp = NaNBp
                          ELSE /\ row.is_significant = TRUE
                               /\ row.n_regions = Len(regs)
                               /\ row.region_index = Cardinality({j \in ks : j < k})
                               /\ \A j \in ks : j < k => \A m \in j..k : m \in ks

\* a unit with a channel without regions and a channel with several regions
C7_Witness ==
    /\ pc = "track"
    /\ ti = 2
    /\ \E t \in 0..1 : Len(RegionsOfTrack(t)) = 0
    /\ \E t \in 0..1 : Len(RegionsOfTrack(t)) >= 2

\* the scores of the region a significant row stands for
ScoresOfRow(row) ==
    LET r == RegionsOfTrack(row.track)[row.region_index + 1]
    IN  SubSeq(win_scores[row.track + 1], r[1] + 1, r[2] + 1)

\* the positions of the significant rows of the current unit
SignificantRows ==
    {k \in 1..Len(results_rows) :
        /\ results_rows[k].ontology = OntologyOf(unit)
        /\ results_rows[k].pos = variant.position
        /\ results_rows[k].is_significant}

IsZero(x) == ~IsNaNScore(x) /\ x[1] = 0

\* C8: the direction of a region row is up when all scores of the region
\* are positive, down when all are negative, mixed when the region holds
\* scores of both signs or a zero score, and never anything else.
C8_DirectionLaw ==
    pc = "track" =>
        \A k \in SignificantRows :
            LET row == results_rows[k]
                seg == ScoresOfRow(row)
                I == 1..Len(seg)
            IN  /\ row.direction \in {"up", "down", "mixed"}
                /\ (\A i \in I : IsPositive(seg[i])) => row.direction = "up"
                /\ (\A i \in I : IsNegative(seg[i])) => row.direction = "down"
                /\ (\/ \E i \in I : IsZero(seg[i])
                    \/ (\E i \in I : IsPositive(seg[i])) /\ (\E i \in I : IsNegative(seg[i])))
                      => row.direction = "mixed"

\* a unit with an all-positive region and a region holding both signs and a zero
C8_Witness ==
    /\ pc = "track"
    /\ \E k \in SignificantRows : results_rows[k].direction = "up"
    /\ \E k \in SignificantRows :
          LET seg == ScoresOfRow(results_rows[k])
          IN  /\ results_rows[k].direction = "mixed"
              /\ \E i \in 1..Len(seg) : IsZero(seg[i])
              /\ \E i \in 1..Len(seg) : IsPositive(seg[i])
              /\ \E i \in 1..Len(seg) : IsNegative(seg[i])

\* C10: abs_start_bp of a region row is the genomic coordinate of the first
\* sample of the region's first window, interval.start + clipped scan start +
\* region start, and abs_end_bp that of the last sample of its last window,
\* also when the scan start is clipped to 0; rel_*_bp are their offsets from
\* the mutation position.
C10_TrueCoordinates ==
    pc = "track" =>
        \A k \in SignificantRows :
            LET row == results_rows[k]
                r == RegionsOfTrack(row.track)[row.region_index + 1]
                interval_start == variant.position - variant.center_idx
                first == interval_start + Max(start_idx, 0) + r[1]
                last == interval_start + Max(start_idx, 0) + r[2] + args.window_size - 1
            IN  /\ row.abs_start_bp = first
                /\ row.abs_end_bp = last
                /\ row.rel_start_bp = first - variant.position
                /\ row.rel_end_bp = last - variant.position

\* the positions in results_rows of all rows of the current unit
RowsOfUnit ==
    {k \in 1..Len(results_rows) :
        /\ results_rows[k].ontology = OntologyOf(unit)
        /\ results_rows[k].pos = variant.position}

====
